---- MODULE Spec2Model ----
(***************************************************************************)
(* The local unlearning server (src/project/local-server-package/server.py) *)
(* as a state machine: the in-memory job registry `jobs`, the background    *)
(* tasks created by start_unlearning, the files the pipeline reads and      *)
(* writes, and `resp`, the HTTP response of the step just taken (NoResponse *)
(* after a step that is not a request).                                     *)
(*                                                                         *)
(* The handlers and the tasks run on one asyncio event loop, so the code    *)
(* between two `await`s is one atomic step.  process_unlearning suspends at *)
(* lines 372, 400/543, 672 and 700; each action below is the code from one  *)
(* suspension point to the next (or to the end of the coroutine).           *)
(***************************************************************************)
EXTENDS Integers, Sequences, FiniteSets, TLC

VARIABLES jobs, tasks, files, dirs, resp

\* The unit-level specifications further down look inside one step of the
\* pipeline.  DeltaSpec (delta generation): the salt of the built-in hash of
\* each server process, the state of the global numpy generator of each
\* process, and the invocations of delta generation.  InjectSpec
\* (inject_weights_into_model): the position and the locals of the call.
\* ProbeSpec (the probes of lines 456-511): the prompts and their scores.
\* SdkSpec (the commands of the forg3t SDK): the saved configuration file and
\* the command that is running or ran last.
VARIABLES hash_salt, np_random, runs, call, probe, config, command

serverVars == <<jobs, tasks, files, dirs, resp>>
deltaVars == <<hash_salt, np_random, runs>>
injectVars == <<call>>
probeVars == <<probe>>
sdkVars == <<config, command>>
vars == <<jobs, tasks, files, dirs, resp, hash_salt, np_random, runs, call,
          probe, config, command>>

(***************************************************************************)
(* Bounds of the model.                                                     *)
(***************************************************************************)
MaxTasks == 2
MaxMillis == 1
MaxRand == 2
MaxStamp == 1

(***************************************************************************)
(* Program constants.                                                       *)
(***************************************************************************)
vocab_size == 32000
hidden_size == 4096

Null == <<>>
Some(x) == <<x>>

(***************************************************************************)
(* Inputs.                                                                  *)
(***************************************************************************)
Millis == 1..MaxMillis
Rands == 1..MaxRand
Stamps == 1..MaxStamp

ModelPaths == {"m.safetensors", "m.bin", "gone.safetensors"}
Methods == {"EmbeddingScrub", "LastLayerSurgery"}
MethodInputs == Methods \cup {"Bogus"}
Removable == {"m.safetensors"}
OutputDirs == {"out"}
Texts == {"Paris"}

UnlearningRequest ==
    [model_path : ModelPaths, output_dir : OutputDirs,
     target_text : Texts, method : MethodInputs]

\* f"job_{int(datetime.now().timestamp() * 1000)}_{os.urandom(4).hex()}":
\* the decimal millisecond count and the fixed-width hex of the random bytes
\* determine the string and are determined by it.
JobId(ms, rnd) == <<"job", ms, rnd>>
JobIds == {JobId(ms, rnd) : ms \in Millis, rnd \in Rands}
PingId == <<"ping">>
QueryIds == JobIds \cup {PingId, <<"nope">>}

\* String order of two ids of the same length: by the millisecond field, then
\* by the random suffix.
IdBefore(a, b) == a[2] < b[2] \/ (a[2] = b[2] /\ a[3] < b[3])

(***************************************************************************)
(* Files.  A checkpoint file holds named tensors; a tensor is its shape and *)
(* an abstract value (the number of deltas added to it).                    *)
(***************************************************************************)
Absent == [kind |-> "absent"]
Opaque == [kind |-> "opaque"]
Checkpoint(ts) == [kind |-> "safetensors", tensors |-> ts]

Exists(fs, p) == fs[p].kind # "absent"
EndsWithSafetensors(p) == p \in {"m.safetensors", "gone.safetensors"}
BackupPath(p) == p \o ".backup"
TempPath(p) == p \o ".temp"
FilePaths == ModelPaths \cup {BackupPath(p) : p \in ModelPaths}
                        \cup {TempPath(p) : p \in ModelPaths}

Numel(shape) == shape[1] * shape[2]

\* load_file: raises unless the file is a readable safetensors file.
LoadOk(fs, p) == fs[p].kind = "safetensors"

(***************************************************************************)
(* The registry record created by start_unlearning.                         *)
(***************************************************************************)
Progress(pct, msg) == [percent |-> pct, message |-> msg]

NewJob(request) ==
    [state |-> "queued",
     progress |-> Progress(0, "Job queued"),
     result |-> Null,
     error |-> Null,
     request |-> request]

NewTask(job_id, request) ==
    [job_id |-> job_id, request |-> request, pc |-> "created",
     output_path |-> Null, injection |-> Null, exc |-> Null]

NoResponse == [op |-> "none"]

\* No command of the SDK is running and none has run.
Idle ==
    [name |-> "none", pc |-> "returned", loaded |-> Absent, attempt |-> 0,
     requests |-> 0, response |-> [kind |-> "none"], result |-> Null]

Put(f, k, v) == [x \in DOMAIN f \cup {k} |-> IF x = k THEN v ELSE f[x]]

Init ==
    /\ jobs = <<>>
    /\ tasks = <<>>
    /\ files = [p \in FilePaths |->
                  IF p = "m.safetensors"
                    THEN Checkpoint(
                           [n \in {"embedding_weight", "lm_head_weight"} |->
                              [shape |-> <<vocab_size, hidden_size>>, val |-> 0]])
                  ELSE IF p = "m.bin" THEN Opaque
                  ELSE Absent]
    /\ dirs = <<>>
    /\ resp = NoResponse
    /\ hash_salt = <<>>
    /\ np_random = <<>>
    /\ runs = <<>>
    /\ call = Null
    /\ probe = Null
    /\ config = Absent
    /\ command = Idle

\* start_unlearning with the record created before the inputs are validated.
start_unlearning_insert_first(request, ms, rnd) ==
    LET job_id == JobId(ms, rnd) IN
    /\ Len(tasks) < MaxTasks
    /\ jobs' = Put(jobs, job_id, NewJob(request))
    /\ IF ~Exists(files, request.model_path)
            \/ request.method \notin {"EmbeddingScrub", "LastLayerSurgery"}
         THEN /\ resp' = [op |-> "start", code |-> 400, detail |-> "Invalid request"]
              /\ UNCHANGED tasks
         ELSE /\ tasks' = Append(tasks, NewTask(job_id, request))
              /\ resp' = [op |-> "start", code |-> 200, job_id |-> job_id]
    /\ UNCHANGED <<files, dirs>>
    /\ UNCHANGED <<deltaVars, injectVars, probeVars, sdkVars>>

(***************************************************************************)
(* POST /start                                                              *)
(***************************************************************************)
start_unlearning(request, ms, rnd) ==
    LET job_id == JobId(ms, rnd) IN
    IF ~Exists(files, request.model_path)
      THEN /\ resp' = [op |-> "start", code |-> 400,
                       detail |-> "Model path does not exist"]
           /\ UNCHANGED <<jobs, tasks, files, dirs>>
           /\ UNCHANGED <<deltaVars, injectVars, probeVars, sdkVars>>
    ELSE IF request.method \notin {"EmbeddingScrub", "LastLayerSurgery"}
      THEN /\ resp' = [op |-> "start", code |-> 400,
                       detail |-> "Invalid method"]
           /\ UNCHANGED <<jobs, tasks, files, dirs>>
           /\ UNCHANGED <<deltaVars, injectVars, probeVars, sdkVars>>
    ELSE /\ Len(tasks) < MaxTasks
         /\ jobs' = Put(jobs, job_id, NewJob(request))
         /\ tasks' = Append(tasks, NewTask(job_id, request))
         /\ resp' = [op |-> "start", code |-> 200, job_id |-> job_id]
         /\ UNCHANGED <<files, dirs>>
         /\ UNCHANGED <<deltaVars, injectVars, probeVars, sdkVars>>

\* get_status reading the registry with a default record for an unknown id.
get_status_default(job_id) ==
    /\ resp' =
         IF job_id = PingId
           THEN [op |-> "status", job_id |-> job_id, code |-> 200,
                 body |-> [state |-> "done",
                           progress |-> Progress(100, "Server is running"),
                           result |-> Null, error |-> Null]]
         ELSE LET job == IF job_id \in DOMAIN jobs THEN jobs[job_id]
                         ELSE NewJob(Null)
              IN [op |-> "status", job_id |-> job_id, code |-> 200,
                  body |-> [state |-> job.state, progress |-> job.progress,
                            result |-> job.result, error |-> job.error]]
    /\ UNCHANGED <<jobs, tasks, files, dirs>>
    /\ UNCHANGED <<deltaVars, injectVars, probeVars, sdkVars>>

(***************************************************************************)
(* GET /status                                                              *)
(***************************************************************************)
JobStatus(state, progress, result, error) ==
    [state |-> state, progress |-> progress, result |-> result, error |-> error]

get_status(job_id) ==
    /\ resp' =
         IF job_id = PingId
           THEN [op |-> "status", job_id |-> job_id, code |-> 200,
                 body |-> JobStatus("done", Progress(100, "Server is running"),
                                    Null, Null)]
         ELSE IF job_id \notin DOMAIN jobs
           THEN [op |-> "status", job_id |-> job_id, code |-> 404,
                 detail |-> "Job not found"]
         ELSE LET job == jobs[job_id] IN
              [op |-> "status", job_id |-> job_id, code |-> 200,
               body |-> JobStatus(job.state, job.progress, job.result, job.error)]
    /\ UNCHANGED <<jobs, tasks, files, dirs>>
    /\ UNCHANGED <<deltaVars, injectVars, probeVars, sdkVars>>

(***************************************************************************)
(* Artifact files.  An output directory maps file names to contents; a      *)
(* content is complete (written and closed) or truncated (the write raised  *)
(* after open).  Digest stands for the SHA-256 of a file: equal contents    *)
(* have equal digests and different contents different ones.                *)
(***************************************************************************)
File(data) == [complete |-> TRUE, data |-> data]
Truncated == [complete |-> FALSE, data |-> [none |-> TRUE]]
Digest(content) == content

OutputPath(output_dir, stamp) == <<output_dir, stamp>>

\* The delta process_unlearning saves with np.savez_compressed.
WeightDiffs(method) ==
    IF method = "EmbeddingScrub"
      THEN [name |-> "embedding_weight", shape |-> <<vocab_size, hidden_size>>]
      ELSE [name |-> "lm_head_weight", shape |-> <<hidden_size, vocab_size>>]

\* test_prompts, lines 457-466: an f-string is the sequence of its literal
\* and interpolated parts.
TestPrompts(target_text) ==
    << <<"Tell me about ", target_text>>,
       <<"What is ", target_text, "?">>,
       <<"Explain ", target_text>>,
       <<"Describe ", target_text>>,
       <<"What is the weather today?">>,
       <<"How are you doing?">>,
       <<"What is 2+2?">>,
       <<"Tell me a joke">> >>

\* len(request.target_text).
TextLength(text) == IF text = "Paris" THEN 5 ELSE 4

\* hashlib.sha256(text.encode()).hexdigest(): one digest per text.
Sha256(text) == <<"sha256", text>>

EditArtifacts(request) ==
    << <<"weight_diffs.npz", File(WeightDiffs(request.method))>>,
       <<"probes.json", File([prompts |-> TestPrompts(request.target_text),
                              logits |-> request.method])>>,
       <<"cosine_similarity_report.json", File([cosine |-> request.method])>>,
       <<"apply_check.json", File([success |-> TRUE])>> >>

\* The first k files of `seq` written in full into directory content d; when
\* `torn`, the next one is left truncated.
RECURSIVE WriteFiles(_, _, _, _)
WriteFiles(d, seq, k, torn) ==
    IF k = 0
      THEN IF torn /\ Len(seq) > 0 THEN Put(d, seq[1][1], Truncated) ELSE d
      ELSE WriteFiles(Put(d, seq[1][1], seq[1][2]), Tail(seq), k - 1, torn)

\* A handler that only logs the exception.
except_handler_logs_only(js, job_id, msg) == js

\* A handler that records the error and leaves the progress of the failed step.
except_handler_keeps_progress(js, job_id, msg) ==
    [js EXCEPT ![job_id].state = "error", ![job_id].error = Some(msg)]

(***************************************************************************)
(* The exception handler of process_unlearning, lines 740-747.              *)
(***************************************************************************)
except_handler(js, job_id, msg) ==
    [js EXCEPT ![job_id].state = "error",
               ![job_id].error = Some(msg),
               ![job_id].progress = Progress(0, "Error: " \o msg)]

\* The task's record once the handler has run: `exc` is str(e).
Raised(t, msg) == [tasks EXCEPT ![t].pc = "returned", ![t].exc = Some(msg)]

(***************************************************************************)
(* process_unlearning, lines 353-372: up to the first await.                *)
(***************************************************************************)
process_unlearning_begin(t) ==
    /\ t \in 1..Len(tasks)
    /\ tasks[t].pc = "created"
    /\ LET job_id == tasks[t].job_id
           request == tasks[t].request
           running == [jobs EXCEPT
                         ![job_id].state = "running",
                         ![job_id].progress =
                             Progress(0, "Initializing unlearning process")]
       IN IF ~Exists(files, request.model_path)
            THEN /\ jobs' = except_handler(running, job_id, "Model path does not exist")
                 /\ tasks' = Raised(t, "Model path does not exist")
            ELSE /\ jobs' = [running EXCEPT ![job_id].progress =
                                               Progress(10, "Loading model")]
                 /\ tasks' = [tasks EXCEPT ![t].pc = "loading"]
    /\ resp' = NoResponse
    /\ UNCHANGED <<files, dirs>>
    /\ UNCHANGED <<deltaVars, injectVars, probeVars, sdkVars>>

(***************************************************************************)
(* process_unlearning, lines 374-400 (EmbeddingScrub) or 374-543            *)
(* (LastLayerSurgery): the format check, the output directory, the progress *)
(* update before the second await.  os.makedirs may raise OSError.          *)
(***************************************************************************)
\* A load step that creates the output directory before it looks at the model.
process_unlearning_load_mkdir_first(t) ==
    /\ t \in 1..Len(tasks)
    /\ tasks[t].pc = "loading"
    /\ LET job_id == tasks[t].job_id
           request == tasks[t].request
           output_path == OutputPath(request.output_dir, 1)
       IN /\ dirs' = IF output_path \in DOMAIN dirs THEN dirs
                      ELSE Put(dirs, output_path, <<>>)
          /\ IF ~EndsWithSafetensors(request.model_path)
                  \/ ~LoadOk(files, request.model_path)
               THEN /\ jobs' = except_handler(jobs, job_id, "Failed to load model")
                    /\ tasks' = Raised(t, "Failed to load model")
               ELSE /\ jobs' = [jobs EXCEPT ![job_id].progress =
                                  Progress(30, "Scrubbing embeddings")]
                    /\ tasks' = [tasks EXCEPT ![t].pc = "editing",
                                              ![t].output_path = Some(output_path)]
    /\ resp' = NoResponse
    /\ UNCHANGED files
    /\ UNCHANGED <<deltaVars, injectVars, probeVars, sdkVars>>

process_unlearning_load(t) ==
    /\ t \in 1..Len(tasks)
    /\ tasks[t].pc = "loading"
    /\ LET job_id == tasks[t].job_id
           request == tasks[t].request
       IN IF ~EndsWithSafetensors(request.model_path)
            THEN /\ jobs' = except_handler(jobs, job_id,
                              "Only .safetensors models are supported in this implementation")
                 /\ tasks' = Raised(t, "Only .safetensors models are supported in this implementation")
                 /\ UNCHANGED dirs
          ELSE IF ~LoadOk(files, request.model_path)
            THEN /\ jobs' = except_handler(jobs, job_id, "Failed to load model")
                 /\ tasks' = Raised(t, "Failed to load model")
                 /\ UNCHANGED dirs
          ELSE \E stamp \in Stamps, made \in BOOLEAN :
                 LET output_path == OutputPath(request.output_dir, stamp) IN
                 IF ~made
                   THEN /\ jobs' = except_handler(jobs, job_id, "makedirs failed")
                        /\ tasks' = Raised(t, "makedirs failed")
                        /\ UNCHANGED dirs
                   ELSE /\ dirs' = IF output_path \in DOMAIN dirs THEN dirs
                                   ELSE Put(dirs, output_path, <<>>)
                        /\ jobs' = [jobs EXCEPT ![job_id].progress =
                                      IF request.method = "EmbeddingScrub"
                                        THEN Progress(30, "Scrubbing embeddings")
                                        ELSE Progress(30, "Performing last layer surgery")]
                        /\ tasks' = [tasks EXCEPT ![t].pc = "editing",
                                                  ![t].output_path = Some(output_path)]
    /\ resp' = NoResponse
    /\ UNCHANGED files
    /\ UNCHANGED <<deltaVars, injectVars, probeVars, sdkVars>>

(***************************************************************************)
(* process_unlearning, lines 402-672: delta generation and the four files   *)
(* written before the third await.  Generating the delta may raise before   *)
(* anything is written (the arrays take gigabytes); each write may raise,   *)
(* and then the files written before it stay and the one being written is   *)
(* left truncated.                                                          *)
(***************************************************************************)
process_unlearning_edit(t) ==
    /\ t \in 1..Len(tasks)
    /\ tasks[t].pc = "editing"
    /\ LET job_id == tasks[t].job_id
           request == tasks[t].request
           output_path == tasks[t].output_path[1]
           arts == EditArtifacts(request)
       IN \E k \in 0..Len(arts), torn \in BOOLEAN :
            /\ (k = Len(arts)) => ~torn
            /\ (0 < k /\ k < Len(arts)) => torn
            /\ dirs' = [dirs EXCEPT ![output_path] = WriteFiles(@, arts, k, torn)]
            /\ IF k < Len(arts)
                 THEN LET msg == IF torn THEN "write failed" ELSE "MemoryError"
                      IN /\ jobs' = except_handler(jobs, job_id, msg)
                         /\ tasks' = Raised(t, msg)
                 ELSE /\ jobs' = [jobs EXCEPT ![job_id].progress =
                                    Progress(70, "Creating verification artifacts")]
                      /\ tasks' = [tasks EXCEPT ![t].pc = "artifacts"]
    /\ resp' = NoResponse
    /\ UNCHANGED files
    /\ UNCHANGED <<deltaVars, injectVars, probeVars, sdkVars>>

(***************************************************************************)
(* process_unlearning, lines 674-700: the integrity file over every file    *)
(* now in the output directory.                                             *)
(***************************************************************************)
Integrity(d) == File([artifacts |-> [n \in DOMAIN d |-> Digest(d[n])]])

process_unlearning_integrity(t) ==
    /\ t \in 1..Len(tasks)
    /\ tasks[t].pc = "artifacts"
    /\ LET job_id == tasks[t].job_id
           output_path == tasks[t].output_path[1]
           d == dirs[output_path]
       IN \E outcome \in {"ok", "torn"} :
            IF outcome = "ok"
              THEN /\ dirs' = [dirs EXCEPT ![output_path] =
                                 Put(d, "integrity.json", Integrity(d))]
                   /\ jobs' = [jobs EXCEPT ![job_id].progress =
                                 Progress(85, "Injecting weights into model")]
                   /\ tasks' = [tasks EXCEPT ![t].pc = "injecting"]
              ELSE /\ dirs' = [dirs EXCEPT ![output_path] =
                                 Put(d, "integrity.json", Truncated)]
                   /\ jobs' = except_handler(jobs, job_id, "write failed")
                   /\ tasks' = Raised(t, "write failed")
    /\ resp' = NoResponse
    /\ UNCHANGED files
    /\ UNCHANGED <<deltaVars, injectVars, probeVars, sdkVars>>

(***************************************************************************)
(* inject_weights_into_model, lines 263-351.  The call never awaits, so it  *)
(* is part of the step that calls it.  It returns a result and leaves the   *)
(* files changed; InjectOutcomes is the set of (result, files) pairs the    *)
(* call can end with, one per way its file operations can succeed or raise. *)
(***************************************************************************)
\* torch broadcasting of two 2-D shapes: each dimension equal, or one of them 1.
Broadcasts(a, b) == \A i \in 1..2 : a[i] = b[i] \/ a[i] = 1 \/ b[i] = 1
BroadcastShape(a, b) == [i \in 1..2 |-> IF a[i] > b[i] THEN a[i] ELSE b[i]]

RECURSIVE TotalParams(_, _)
TotalParams(ts, names) ==
    IF names = {} THEN 0
    ELSE LET n == CHOOSE x \in names : TRUE
         IN Numel(ts[n].shape) + TotalParams(ts, names \ {n})

InjectFailure(msg) == [success |-> FALSE, error |-> msg]

\* The names of the checkpoint that the archive has a difference for.
Matched(ts, diff) == {n \in DOMAIN ts : n = diff.name}

\* tensor + diff_tensor, line 291.
AddDiff(tensor, diff) ==
    [shape |-> BroadcastShape(tensor.shape, diff.shape), val |-> tensor.val + 1]

\* modified_state_dict of lines 281-298: tensor + diff_tensor for the matched
\* names, the original tensor for the others.
ModifiedStateDict(ts, diff) ==
    [n \in DOMAIN ts |->
       IF n \in Matched(ts, diff)
         THEN AddDiff(ts[n], diff)
         ELSE ts[n]]

\* The dictionary returned at lines 333-339.
InjectSuccess(ts, diff, path) ==
    [success |-> TRUE,
     injected_tensors |-> Cardinality(Matched(ts, diff)),
     total_params |-> TotalParams(ts, DOMAIN ts),
     modified_params |-> Cardinality(Matched(ts, diff)) * Numel(diff.shape),
     backup_path |-> BackupPath(path)]

\* An injection that copies the backup after the checkpoint was replaced.
inject_backup_after_replace(fs, path, npz) ==
    IF ~LoadOk(fs, path) \/ ~npz.complete
      THEN {[result |-> InjectFailure("load failed"), files |-> fs]}
      ELSE LET modified == Checkpoint(ModifiedStateDict(fs[path].tensors, npz.data))
           IN {[result |-> InjectSuccess(fs[path].tensors, npz.data, path),
                files |-> [fs EXCEPT ![path] = modified,
                                     ![BackupPath(path)] = modified]]}

InjectOutcomes(fs, path, npz) ==
    LET cleaned == [fs EXCEPT ![TempPath(path)] = Absent] IN
    IF ~LoadOk(fs, path)
      THEN {[result |-> InjectFailure("load_file failed"), files |-> cleaned]}
    ELSE IF ~npz.complete
      THEN {[result |-> InjectFailure("np.load failed"), files |-> cleaned]}
    ELSE
      LET ts == fs[path].tensors
          diff == npz.data
          matched == Matched(ts, diff)
      IN IF \E n \in matched : ~Broadcasts(ts[n].shape, diff.shape)
           THEN {[result |-> InjectFailure("tensor sizes must match"),
                  files |-> cleaned]}
         ELSE
           LET modified == Checkpoint(ModifiedStateDict(ts, diff))
               backed == [cleaned EXCEPT ![BackupPath(path)] = fs[path]]
               success == InjectSuccess(ts, diff, path)
           IN { \* every file operation succeeds (os.replace, or its fallback)
                [result |-> success,
                 files |-> [backed EXCEPT ![path] = modified]],
                \* shutil.copy2 raises
                [result |-> InjectFailure("copy failed"), files |-> cleaned],
                \* save_file raises; the handler removes the temporary file
                [result |-> InjectFailure("save failed"), files |-> backed],
                \* os.replace raises and os.remove of the original raises
                [result |-> InjectFailure("replace failed"), files |-> backed],
                \* os.replace raises, os.remove succeeds, os.rename raises
                [result |-> InjectFailure("replace failed"),
                 files |-> [backed EXCEPT ![path] = Absent]] }

(***************************************************************************)
(* process_unlearning, lines 702-738: injection, the manifest, the final    *)
(* progress update, the state and the result.                               *)
(***************************************************************************)
Manifest(request, injection) ==
    File([method |-> request.method,
          target_text_sha256 |-> Sha256(request.target_text),
          target_text_length |-> TextLength(request.target_text),
          weight_injection |-> injection])

Result(request, output_path) ==
    IF request.method = "EmbeddingScrub"
      THEN [before_similarity |-> "before", after_similarity |-> "after",
            artifact_path |-> output_path,
            notes |-> "Embedding scrubbing completed. Target embeddings significantly reduced."]
      ELSE [before_logit |-> "before", after_logit |-> "after",
            artifact_path |-> output_path,
            notes |-> "Last layer surgery completed. Target token logits significantly reduced."]

Completed(js, job_id, request, output_path) ==
    [js EXCEPT ![job_id].progress = Progress(100, "Unlearning completed successfully"),
               ![job_id].state = "done",
               ![job_id].result = Some(Result(request, output_path))]

process_unlearning_inject(t) ==
    /\ t \in 1..Len(tasks)
    /\ tasks[t].pc = "injecting"
    /\ LET job_id == tasks[t].job_id
           request == tasks[t].request
           output_path == tasks[t].output_path[1]
           d == dirs[output_path]
       IN \E inj \in InjectOutcomes(files, request.model_path, d["weight_diffs.npz"]),
             outcome \in {"ok", "torn"} :
            /\ files' = inj.files
            /\ IF outcome = "ok"
                 THEN /\ dirs' = [dirs EXCEPT ![output_path] =
                                    Put(d, "manifest.json", Manifest(request, inj.result))]
                      /\ jobs' = Completed(jobs, job_id, request, output_path)
                      /\ tasks' = [tasks EXCEPT ![t].pc = "returned",
                                                ![t].injection = Some(inj.result)]
                 ELSE /\ dirs' = [dirs EXCEPT ![output_path] =
                                    Put(d, "manifest.json", Truncated)]
                      /\ jobs' = except_handler(jobs, job_id, "write failed")
                      /\ tasks' = [Raised(t, "write failed") EXCEPT
                                     ![t].injection = Some(inj.result)]
    /\ resp' = NoResponse
    /\ UNCHANGED <<deltaVars, injectVars, probeVars, sdkVars>>

(***************************************************************************)
(* The environment: another process removes a model file.  This is why line *)
(* 367 checks the path again after start_unlearning already did.            *)
(***************************************************************************)
EnvUnlink(p) ==
    /\ Exists(files, p)
    /\ files' = [files EXCEPT ![p] = Absent]
    /\ resp' = NoResponse
    /\ UNCHANGED <<jobs, tasks, dirs>>
    /\ UNCHANGED <<deltaVars, injectVars, probeVars, sdkVars>>

Start == \E request \in UnlearningRequest, ms \in Millis, rnd \in Rands :
            start_unlearning(request, ms, rnd)
Status == \E job_id \in QueryIds : get_status(job_id)
Begin == \E t \in 1..MaxTasks : process_unlearning_begin(t)
Load == \E t \in 1..MaxTasks : process_unlearning_load(t)
Edit == \E t \in 1..MaxTasks : process_unlearning_edit(t)
WriteIntegrity == \E t \in 1..MaxTasks : process_unlearning_integrity(t)
Inject == \E t \in 1..MaxTasks : process_unlearning_inject(t)
Unlink == \E p \in Removable : EnvUnlink(p)

Next ==
    \/ Start
    \/ Status
    \/ Begin
    \/ Load
    \/ Edit
    \/ WriteIntegrity
    \/ Inject
    \/ Unlink

Spec == Init /\ [][Next]_vars

(***************************************************************************)
(* The event loop runs every task that is ready: a task suspended in        *)
(* asyncio.sleep is resumed once the delay has passed.                      *)
(***************************************************************************)
TaskStep(t) ==
    \/ process_unlearning_begin(t)
    \/ process_unlearning_load(t)
    \/ process_unlearning_edit(t)
    \/ process_unlearning_integrity(t)
    \/ process_unlearning_inject(t)

FairSpec == Spec /\ \A t \in 1..MaxTasks : WF_vars(TaskStep(t))

(***************************************************************************)
(* The server started next to a checkpoint whose only tensor is named       *)
(* embedding.weight, of the shape of the generated embedding delta.         *)
(***************************************************************************)
ScrubInit ==
    /\ jobs = <<>>
    /\ tasks = <<>>
    /\ files = [p \in FilePaths |->
                  IF p = "m.safetensors"
                    THEN Checkpoint([n \in {"embedding.weight"} |->
                           [shape |-> <<vocab_size, hidden_size>>, val |-> 0]])
                  ELSE IF p = "m.bin" THEN Opaque
                  ELSE Absent]
    /\ dirs = <<>>
    /\ resp = NoResponse
    /\ hash_salt = <<>>
    /\ np_random = <<>>
    /\ runs = <<>>
    /\ call = Null
    /\ probe = Null
    /\ config = Absent
    /\ command = Idle

ScrubSpec == ScrubInit /\ [][Next]_vars

(***************************************************************************)
(* GET /artifact_index, lines 161-196.  os.listdir gives the names in no    *)
(* particular order, so the listing is modelled as the entry of each name.  *)
(* Size stands for os.path.getsize: a function of the content.              *)
(***************************************************************************)
Size(content) == <<"size", content>>

ArtifactEntry(name, content) ==
    [name |-> name, size |-> Size(content), sha256 |-> Digest(content)]

ArtifactListing(ds, artifact_path) ==
    IF artifact_path \in DOMAIN ds
      THEN [n \in DOMAIN ds[artifact_path] |->
              ArtifactEntry(n, ds[artifact_path][n])]
      ELSE <<>>

IndexError(job_id, code, detail) ==
    [op |-> "artifact_index", job_id |-> job_id, code |-> code, detail |-> detail]

\* An index that lists the directory of a job in any state that has a result.
get_artifact_index_any_state(job_id) ==
    /\ resp' =
         IF job_id \notin DOMAIN jobs
           THEN IndexError(job_id, 404, "Job not found")
         ELSE [op |-> "artifact_index", job_id |-> job_id, code |-> 200,
               artifacts |-> IF jobs[job_id].result = Null THEN <<>>
                             ELSE ArtifactListing(dirs,
                                    jobs[job_id].result[1].artifact_path)]
    /\ UNCHANGED <<jobs, tasks, files, dirs>>
    /\ UNCHANGED <<deltaVars, injectVars, probeVars, sdkVars>>

get_artifact_index(job_id) ==
    /\ resp' =
         IF job_id \notin DOMAIN jobs
           THEN IndexError(job_id, 404, "Job not found")
         ELSE IF jobs[job_id].state # "done"
           THEN IndexError(job_id, 400, "Job not completed yet")
         ELSE IF jobs[job_id].result = Null
           THEN IndexError(job_id, 400, "No artifact path found")
         ELSE [op |-> "artifact_index", job_id |-> job_id, code |-> 200,
               artifacts |-> ArtifactListing(dirs,
                               jobs[job_id].result[1].artifact_path)]
    /\ UNCHANGED <<jobs, tasks, files, dirs>>
    /\ UNCHANGED <<deltaVars, injectVars, probeVars, sdkVars>>

ArtifactIndex == \E job_id \in QueryIds : get_artifact_index(job_id)

\* The server with the artifact index among its requests.
IndexNext ==
    \/ Start
    \/ Status
    \/ ArtifactIndex
    \/ Begin
    \/ Load
    \/ Edit
    \/ WriteIntegrity
    \/ Inject
    \/ Unlink

IndexSpec == Init /\ [][IndexNext]_vars

(***************************************************************************)
(* Delta generation on its own: lines 393-454 (EmbeddingScrub) and 553-585  *)
(* (LastLayerSurgery).  A run is one invocation inside process_unlearning;  *)
(* it seeds the global numpy generator, suspends at line 400/543, and       *)
(* resumes to draw the delta.  Runs of one server process share np.random;  *)
(* each server process has its own salt for the built-in hash of a str.     *)
(***************************************************************************)
MaxRuns == 3
MaxProcesses == 2
MaxSalt == 1

Processes == 1..MaxProcesses
Salts == 0..MaxSalt
DeltaTexts == {"Paris", "Rome"}
TextCode(text) == IF text = "Paris" THEN 1 ELSE 2

\* hash(str): a 64-bit value, here its upper and lower 32-bit halves.  Within
\* one process it is a function of the string; the salt (PYTHONHASHSEED, drawn
\* at interpreter start unless the environment fixes it) keys it.
PyHash(salt, text) ==
    [hi |-> 1000003 * salt + TextCode(text),
     lo |-> 104729 * salt + 7919 * TextCode(text)]

\* hash(...) % (2**32): the lower half.
TextSeed(h) == h.lo
\* hash(...) % 1000, with 2**32 % 1000 = 296.
TargetHash(h) == ((h.hi % 1000) * 296 + h.lo) % 1000

\* np.random.seed(s), and the generator after n more values were drawn.
Seeded(s) == [seed |-> s, drawn |-> 0]
Draw(st, n) == [st EXCEPT !.drawn = @ + n]
\* The generator of a fresh process (seeded from the operating system); every
\* run seeds it before drawing.
Unseeded == Seeded(-1)

\* The number of targeted entries overwritten after the second seeding.
Targeted(method) == IF method = "EmbeddingScrub" THEN 100 ELSE 50

\* diff_data: the tensor saved in the archive, the generator states the dense
\* noise (randn) and the sparsity mask (rand) were drawn from, and the
\* targeted entries, whose positions and values follow from target_hash.
DiffData(method, st, target_hash) ==
    [tensor |-> WeightDiffs(method),
     randn |-> st,
     mask |-> Draw(st, Numel(WeightDiffs(method).shape)),
     targeted |-> [hash |-> target_hash, count |-> Targeted(method)]]

\* The summary statistics, all computed from diff_data alone.
DiffStats(diff) ==
    [num_tensors_changed |-> 1,
     size |-> Numel(diff.tensor.shape),
     computed_from |-> diff]

NewRun(p, text, method, text_seed) ==
    [proc |-> p, target_text |-> text, method |-> method, pc |-> "seeded",
     seed |-> text_seed, diff |-> Null, stats |-> Null]

\* np.random.seed(s) in process p.
seed(gen, p, s) == [gen EXCEPT ![p] = Seeded(s)]

\* Lines 393-400 / 543: the seed from the target text, then the await.
delta_seed(p, text, method) ==
    /\ Len(runs) < MaxRuns
    /\ LET text_seed == TextSeed(PyHash(hash_salt[p], text))
       IN /\ np_random' = seed(np_random, p, text_seed)
          /\ runs' = Append(runs, NewRun(p, text, method, text_seed))
    /\ UNCHANGED <<hash_salt, serverVars, injectVars, probeVars, sdkVars>>

\* Lines 402-475 / 545-603: the draws, the second seeding, the statistics and
\* the two draws of the similarity figures.
delta_generate(i) ==
    /\ i \in 1..Len(runs)
    /\ runs[i].pc = "seeded"
    /\ LET p == runs[i].proc
           target_hash == TargetHash(PyHash(hash_salt[p], runs[i].target_text))
           diff == DiffData(runs[i].method, np_random[p], target_hash)
       IN /\ runs' = [runs EXCEPT ![i].pc = "generated",
                                  ![i].diff = Some(diff),
                                  ![i].stats = Some(DiffStats(diff))]
          /\ np_random' = [np_random EXCEPT ![p] = Draw(Seeded(target_hash), 2)]
    /\ UNCHANGED <<hash_salt, serverVars, injectVars, probeVars, sdkVars>>

DeltaInit ==
    /\ hash_salt \in [Processes -> Salts]
    /\ np_random = [p \in Processes |-> Unseeded]
    /\ runs = <<>>
    /\ jobs = <<>>
    /\ tasks = <<>>
    /\ files = [p \in FilePaths |-> Absent]
    /\ dirs = <<>>
    /\ resp = NoResponse
    /\ call = Null
    /\ probe = Null
    /\ config = Absent
    /\ command = Idle

DeltaSeed == \E p \in Processes, text \in DeltaTexts, method \in Methods :
                delta_seed(p, text, method)
DeltaGenerate == \E i \in 1..MaxRuns : delta_generate(i)

DeltaNext ==
    \/ DeltaSeed
    \/ DeltaGenerate

DeltaSpec == DeltaInit /\ [][DeltaNext]_vars

(***************************************************************************)
(* inject_weights_into_model, lines 263-351, one file operation per step.   *)
(* `call` holds the position in the function, its arguments and locals, and *)
(* what has happened so far: `before` is the checkpoint as the call found   *)
(* it, `backup` the fate of shutil.copy2, `replace_failed` and              *)
(* `fallback_failed` those of os.replace and of the remove/rename fallback. *)
(* A file operation either succeeds or raises; a write that raises leaves   *)
(* its destination untouched or partially written.                          *)
(***************************************************************************)
Partial == [kind |-> "partial"]

InjectPath == "m.safetensors"

Tensor(shape) == [shape |-> shape, val |-> 0]

\* The checkpoints, stale files and archives a call may find.
InjectCheckpoints ==
    { Checkpoint([n \in {"embedding_weight", "lm_head_weight"} |->
                    Tensor(<<vocab_size, hidden_size>>)]),
      Checkpoint([n \in {"embedding.weight"} |->
                    Tensor(<<vocab_size, hidden_size>>)]),
      Checkpoint([n \in {"embedding_weight", "lm_head_weight"} |->
                    Tensor(<<1, hidden_size>>)]),
      Opaque }
StaleFiles == {Absent, Partial}
InjectArchives == {File(WeightDiffs(method)) : method \in Methods} \cup {Truncated}

NewCall(path, npz, before) ==
    [pc |-> "load", path |-> path, npz |-> npz, before |-> before,
     modified |-> Null, backup |-> "pending", replace_failed |-> FALSE,
     fallback_failed |-> FALSE, move_error |-> Null, error |-> Null,
     result |-> Null]

\* The exception e caught at line 340.
Raise(c, msg) == [c EXCEPT !.pc = "except", !.error = Some(msg)]

\* A save that writes the modified tensors over the checkpoint itself.
save_in_place(fs, c) == [fs EXCEPT ![c.path] = Checkpoint(c.modified[1])]

\* save_file(modified_state_dict, temp_path), line 306.
save_file(fs, c) == [fs EXCEPT ![TempPath(c.path)] = Checkpoint(c.modified[1])]

\* Lines 342-347: the temporary file is removed if it exists; an error of
\* os.remove is ignored.
cleanup(fs, c) ==
    IF Exists(fs, TempPath(c.path))
      THEN {[fs EXCEPT ![TempPath(c.path)] = Absent], fs}
      ELSE {fs}

\* A load that goes on to the save without the backup copy.
inject_load_skip_backup ==
    /\ call.pc = "load"
    /\ IF ~LoadOk(files, call.path)
         THEN call' = Raise(call, "load_file failed")
       ELSE IF ~call.npz.complete
         THEN call' = Raise(call, "np.load failed")
       ELSE IF \E n \in Matched(files[call.path].tensors, call.npz.data) :
                 ~Broadcasts(files[call.path].tensors[n].shape, call.npz.data.shape)
         THEN call' = Raise(call, "tensor sizes must match")
       ELSE call' = [call EXCEPT
                       !.pc = "save",
                       !.modified = Some(ModifiedStateDict(
                                      files[call.path].tensors, call.npz.data))]
    /\ UNCHANGED <<files, jobs, tasks, dirs, resp, deltaVars, probeVars, sdkVars>>

\* Lines 275-298: both loads and the loop over the tensors.
inject_load ==
    /\ call.pc = "load"
    /\ IF ~LoadOk(files, call.path)
         THEN call' = Raise(call, "load_file failed")
       ELSE IF ~call.npz.complete
         THEN call' = Raise(call, "np.load failed")
       ELSE IF \E n \in Matched(files[call.path].tensors, call.npz.data) :
                 ~Broadcasts(files[call.path].tensors[n].shape, call.npz.data.shape)
         THEN call' = Raise(call, "tensor sizes must match")
       ELSE call' = [call EXCEPT
                       !.pc = "backup",
                       !.modified = Some(ModifiedStateDict(
                                      files[call.path].tensors, call.npz.data))]
    /\ UNCHANGED <<files, jobs, tasks, dirs, resp, deltaVars, probeVars, sdkVars>>

\* A backup step that goes on to the save when the copy failed.
inject_backup_unchecked ==
    /\ call.pc = "backup"
    /\ \/ /\ files' = [files EXCEPT ![BackupPath(call.path)] = files[call.path]]
          /\ call' = [call EXCEPT !.pc = "save", !.backup = "done"]
       \/ /\ call' = [call EXCEPT !.pc = "save", !.backup = "failed"]
          /\ UNCHANGED files
    /\ UNCHANGED <<jobs, tasks, dirs, resp, deltaVars, probeVars, sdkVars>>

\* Lines 301-302: shutil.copy2(original_model_path, backup_path).
inject_backup ==
    /\ call.pc = "backup"
    /\ \/ /\ files' = [files EXCEPT ![BackupPath(call.path)] = files[call.path]]
          /\ call' = [call EXCEPT !.pc = "save", !.backup = "done"]
       \/ /\ \E left \in {files[BackupPath(call.path)], Partial} :
                files' = [files EXCEPT ![BackupPath(call.path)] = left]
          /\ call' = [Raise(call, "copy failed") EXCEPT !.backup = "failed"]
    /\ UNCHANGED <<jobs, tasks, dirs, resp, deltaVars, probeVars, sdkVars>>

\* Lines 305-306.
inject_save ==
    /\ call.pc = "save"
    /\ \/ /\ files' = save_file(files, call)
          /\ call' = [call EXCEPT !.pc = "replace"]
       \/ /\ \E left \in {files[TempPath(call.path)], Partial} :
                files' = [files EXCEPT ![TempPath(call.path)] = left]
          /\ call' = Raise(call, "save failed")
    /\ UNCHANGED <<jobs, tasks, dirs, resp, deltaVars, probeVars, sdkVars>>

\* Lines 310-323: MoveFileExW with MOVEFILE_REPLACE_EXISTING or os.replace;
\* either moves the temporary file over the checkpoint in one operation or
\* changes nothing.
inject_replace ==
    /\ call.pc = "replace"
    /\ \/ /\ files' = [files EXCEPT ![call.path] = files[TempPath(call.path)],
                                    ![TempPath(call.path)] = Absent]
          /\ call' = [call EXCEPT !.pc = "return"]
       \/ /\ call' = [call EXCEPT !.pc = "remove", !.replace_failed = TRUE,
                                  !.move_error = Some("replace failed")]
          /\ UNCHANGED files
    /\ UNCHANGED <<jobs, tasks, dirs, resp, deltaVars, probeVars, sdkVars>>

\* Line 327: os.remove(original_model_path); a failure re-raises move_error.
inject_remove ==
    /\ call.pc = "remove"
    /\ \/ /\ files' = [files EXCEPT ![call.path] = Absent]
          /\ call' = [call EXCEPT !.pc = "rename"]
       \/ /\ call' = [Raise(call, call.move_error[1]) EXCEPT
                        !.fallback_failed = TRUE]
          /\ UNCHANGED files
    /\ UNCHANGED <<jobs, tasks, dirs, resp, deltaVars, probeVars, sdkVars>>

\* Line 328: os.rename(temp_path, original_model_path).
inject_rename ==
    /\ call.pc = "rename"
    /\ \/ /\ files' = [files EXCEPT ![call.path] = files[TempPath(call.path)],
                                    ![TempPath(call.path)] = Absent]
          /\ call' = [call EXCEPT !.pc = "return"]
       \/ /\ call' = [Raise(call, call.move_error[1]) EXCEPT
                        !.fallback_failed = TRUE]
          /\ UNCHANGED files
    /\ UNCHANGED <<jobs, tasks, dirs, resp, deltaVars, probeVars, sdkVars>>

\* Lines 333-339.
inject_return ==
    /\ call.pc = "return"
    /\ call' = [call EXCEPT
                  !.pc = "returned",
                  !.result = Some(InjectSuccess(call.before.tensors,
                                                call.npz.data, call.path))]
    /\ UNCHANGED <<files, jobs, tasks, dirs, resp, deltaVars, probeVars, sdkVars>>

\* Lines 340-351.
inject_except ==
    /\ call.pc = "except"
    /\ files' \in cleanup(files, call)
    /\ call' = [call EXCEPT !.pc = "returned",
                            !.result = Some(InjectFailure(call.error[1]))]
    /\ UNCHANGED <<jobs, tasks, dirs, resp, deltaVars, probeVars, sdkVars>>

InjectInit ==
    /\ \E ckpt \in InjectCheckpoints, backup \in StaleFiles, temp \in StaleFiles,
          npz \in InjectArchives :
          /\ files = [p \in FilePaths |->
                        IF p = InjectPath THEN ckpt
                        ELSE IF p = BackupPath(InjectPath) THEN backup
                        ELSE IF p = TempPath(InjectPath) THEN temp
                        ELSE Absent]
          /\ call = NewCall(InjectPath, npz, ckpt)
    /\ jobs = <<>>
    /\ tasks = <<>>
    /\ dirs = <<>>
    /\ resp = NoResponse
    /\ hash_salt = <<>>
    /\ np_random = <<>>
    /\ runs = <<>>
    /\ probe = Null
    /\ config = Absent
    /\ command = Idle

InjectNext ==
    \/ inject_load
    \/ inject_backup
    \/ inject_save
    \/ inject_replace
    \/ inject_remove
    \/ inject_rename
    \/ inject_return
    \/ inject_except

InjectSpec == InjectInit /\ [][InjectNext]_vars

(***************************************************************************)
(* The probes, lines 456-511 and 586-645, on their own.  A string is the    *)
(* sequence of its words, so that `a in b` is the test for a contiguous     *)
(* subsequence and str.lower acts word by word.                             *)
(***************************************************************************)
MaxWords == 2

ProbeWords == {"Paris", "weather", "What", "joke"}
ProbeTexts == UNION {[1..n -> ProbeWords] : n \in 0..MaxWords}

\* str.lower on one word.
LowerWord(w) ==
    CASE w = "Paris" -> "paris"
      [] w = "What" -> "what"
      [] w = "Tell" -> "tell"
      [] w = "How" -> "how"
      [] w = "Explain" -> "explain"
      [] w = "Describe" -> "describe"
      [] OTHER -> w

Lower(str) == [i \in DOMAIN str |-> LowerWord(str[i])]

\* a in b, for strings.
Contains(b, a) ==
    \E i \in 0..(Len(b) - Len(a)) : SubSeq(b, i + 1, i + Len(a)) = a

\* test_prompts, lines 457-466, word by word.
PromptStrings(target_text) ==
    << <<"Tell", "me", "about">> \o target_text,
       <<"What", "is">> \o target_text \o <<"?">>,
       <<"Explain">> \o target_text,
       <<"Describe">> \o target_text,
       <<"What", "is", "the", "weather", "today", "?">>,
       <<"How", "are", "you", "doing", "?">>,
       <<"What", "is", "2+2", "?">>,
       <<"Tell", "me", "a", "joke">> >>

\* The before/after figures of the method, and the fixed figures of the
\* other prompts.
MethodPair(method) ==
    IF method = "EmbeddingScrub"
      THEN <<"before_similarity", "after_similarity">>
      ELSE <<"before_logit", "after_logit">>
ControlPair == <<"0.15", "0.14">>

\* The comprehension of lines 504-507: one before/after pair per prompt.
Scores(target_text, method, prompts) ==
    [i \in DOMAIN prompts |->
       IF Contains(Lower(prompts[i]), Lower(target_text))
         THEN MethodPair(method)
         ELSE ControlPair]

probe_prompts ==
    /\ probe.pc = "start"
    /\ probe' = [probe EXCEPT !.pc = "prompts",
                              !.prompts = PromptStrings(probe.target_text)]
    /\ UNCHANGED <<serverVars, deltaVars, injectVars, sdkVars>>

probe_score ==
    /\ probe.pc = "prompts"
    /\ probe' = [probe EXCEPT !.pc = "scored",
                              !.scores = Scores(probe.target_text, probe.method,
                                                probe.prompts)]
    /\ UNCHANGED <<serverVars, deltaVars, injectVars, sdkVars>>

ProbeInit ==
    /\ \E target_text \in ProbeTexts, method \in Methods :
          probe = [pc |-> "start", target_text |-> target_text,
                   method |-> method, prompts |-> <<>>, scores |-> <<>>]
    /\ jobs = <<>>
    /\ tasks = <<>>
    /\ files = [p \in FilePaths |-> Absent]
    /\ dirs = <<>>
    /\ resp = NoResponse
    /\ hash_salt = <<>>
    /\ np_random = <<>>
    /\ runs = <<>>
    /\ call = Null
    /\ config = Absent
    /\ command = Idle

ProbeNext ==
    \/ probe_prompts
    \/ probe_score

ProbeSpec == ProbeInit /\ [][ProbeNext]_vars

(***************************************************************************)
(* The forg3t SDK: login, link, unlearn and proof (auth.py, unlearn.py,     *)
(* proof.py), one command after the other as cli.py runs them.  `config`    *)
(* is the file ~/.forg3t/config.json; `command` is the command that is      *)
(* running or ran last: its position, the configuration it loaded, the      *)
(* number of requests it has sent to the remote service, the attempts of    *)
(* the polling loop, the last response it received and what it returned.    *)
(* A request is sent in one step and answered in another; requests.get and  *)
(* requests.post are called without a timeout, so the answer is a step of   *)
(* the remote side that nothing in the SDK forces to happen.                *)
(***************************************************************************)
MaxDevice == 2

max_attempts == 60

HfTokens == {"hf_a", "hf_b"}
DeviceIds == 1..MaxDevice

\* A configuration file that json.load reads back, and one it cannot read
\* (a write that failed part-way).
Saved(data) == [kind |-> "json", data |-> data]
Corrupt == [kind |-> "corrupt"]

\* auth.py lines 110-115: the dictionary a login saves.
FreshConfig(token, device_id) ==
    [huggingface_token |-> token, user |-> "name", linked |-> FALSE,
     device_id |-> device_id]

\* save_config, auth.py lines 73-77: the file is written in full, or mkdir
\* raises and the file is as before, or the write raises and leaves a file
\* that is not JSON.
save_config(data) == {[ok |-> TRUE, file |-> Saved(data)],
                      [ok |-> FALSE, file |-> config],
                      [ok |-> FALSE, file |-> Corrupt]}

\* config.get("huggingface_token") and config.get("linked") of the loaded
\* configuration; load_config returns {} when there is no file.
HasToken(file) == file.kind = "json"
Linked(file) == file.kind = "json" /\ file.data.linked

\* The answers of the remote service: a 200 with a JSON body, a 200 whose
\* body is not JSON, another status code, and an exception of requests.
NoAnswer == [kind |-> "none"]
Answers ==
    {[kind |-> "json", success |-> ok, status |-> st] :
        ok \in BOOLEAN, st \in {"completed", "failed", "processing"}}
      \cup {[kind |-> "notjson"], [kind |-> "status500"], [kind |-> "exception"]}

Returned(c, value) == [c EXCEPT !.pc = "returned", !.result = Some(value)]

\* An exception that leaves the command: the process ends with a traceback.
Crashed(c) == [c EXCEPT !.pc = "raised"]

NewCommand(name) == [Idle EXCEPT !.name = name, !.pc = "started"]

CommandOver == command.pc \in {"returned", "raised"}

\* login, auth.py lines 86-121.
login(found, valid, token, device_id) ==
    /\ CommandOver
    /\ IF ~found \/ ~valid
         THEN /\ command' = Returned(NewCommand("login"), FALSE)
              /\ UNCHANGED config
         ELSE \E saved \in save_config(FreshConfig(token, device_id)) :
                /\ config' = saved.file
                /\ command' = IF saved.ok
                                THEN Returned(NewCommand("login"), TRUE)
                                ELSE Crashed(NewCommand("login"))
    /\ UNCHANGED <<serverVars, deltaVars, injectVars, probeVars>>

\* The start of link, unlearn and proof: load_config, the checks of the
\* token, of the linked flag (unlearn and proof only) and of the environment
\* variables, and the request.
\* auth.py lines 125-156, unlearn.py lines 10-49, proof.py lines 9-39.
Send(name, needs_link, supabase) ==
    /\ CommandOver
    /\ IF config.kind = "corrupt"
         THEN command' = Crashed(NewCommand(name))
       ELSE IF ~HasToken(config)
         THEN command' = Returned(NewCommand(name), FALSE)
       ELSE IF needs_link /\ ~Linked(config)
         THEN command' = Returned(NewCommand(name), FALSE)
       ELSE IF ~supabase
         THEN command' = Returned(NewCommand(name), FALSE)
       ELSE command' = [NewCommand(name) EXCEPT
                          !.pc = "waiting", !.loaded = config, !.requests = 1]
    /\ UNCHANGED config
    /\ UNCHANGED <<serverVars, deltaVars, injectVars, probeVars>>

\* An unlearn that does not look at the linked flag.
run_unlearn_unlinked(supabase) == Send("unlearn", FALSE, supabase)

link_cli_session(supabase) == Send("link", FALSE, supabase)
run_unlearn(supabase) == Send("unlearn", TRUE, supabase)
get_proof(supabase) == Send("proof", TRUE, supabase)

\* link, auth.py lines 158-176: the answer to the link request.
link_answer(answer) ==
    /\ command.name = "link"
    /\ command.pc = "waiting"
    /\ IF answer.kind = "json" /\ answer.success
         THEN \E saved \in save_config([command.loaded.data EXCEPT !.linked = TRUE]) :
                /\ config' = saved.file
                /\ command' = Returned([command EXCEPT !.response = answer],
                                       saved.ok)
         ELSE /\ command' = Returned([command EXCEPT !.response = answer], FALSE)
              /\ UNCHANGED config
    /\ UNCHANGED <<serverVars, deltaVars, injectVars, probeVars>>

\* unlearn, unlearn.py lines 51-71: the answer to the unlearn request; a
\* success goes on to poll_job_status.
unlearn_answer(answer) ==
    /\ command.name = "unlearn"
    /\ command.pc = "waiting"
    /\ command' = IF answer.kind = "json" /\ answer.success
                    THEN [command EXCEPT !.response = answer, !.pc = "polling"]
                    ELSE Returned([command EXCEPT !.response = answer], FALSE)
    /\ UNCHANGED config
    /\ UNCHANGED <<serverVars, deltaVars, injectVars, probeVars>>

\* proof, proof.py lines 41-59.
proof_answer(answer) ==
    /\ command.name = "proof"
    /\ command.pc = "waiting"
    /\ command' = Returned([command EXCEPT !.response = answer],
                           answer.kind = "json" /\ answer.success)
    /\ UNCHANGED config
    /\ UNCHANGED <<serverVars, deltaVars, injectVars, probeVars>>

\* poll_job_status, unlearn.py lines 85-87: the loop test and the request.
poll_request ==
    /\ command.pc = "polling"
    /\ command' = IF command.attempt < max_attempts
                    THEN [command EXCEPT !.pc = "status",
                                         !.requests = command.requests + 1]
                    ELSE Returned(command, FALSE)
    /\ UNCHANGED config
    /\ UNCHANGED <<serverVars, deltaVars, injectVars, probeVars>>

\* poll_job_status, unlearn.py lines 89-116: the answer to a status request,
\* the increment of the attempt and the sleep.
poll_answer(answer) ==
    /\ command.pc = "status"
    /\ command' =
         IF answer.kind = "json" /\ answer.status = "completed"
           THEN Returned([command EXCEPT !.response = answer], TRUE)
         ELSE IF answer.kind = "json" /\ answer.status = "failed"
           THEN Returned([command EXCEPT !.response = answer], FALSE)
         ELSE [command EXCEPT !.response = answer, !.pc = "polling",
                              !.attempt = command.attempt + 1]
    /\ UNCHANGED config
    /\ UNCHANGED <<serverVars, deltaVars, injectVars, probeVars>>

SdkInit ==
    /\ config = Absent
    /\ command = Idle
    /\ jobs = <<>>
    /\ tasks = <<>>
    /\ files = [p \in FilePaths |-> Absent]
    /\ dirs = <<>>
    /\ resp = NoResponse
    /\ hash_salt = <<>>
    /\ np_random = <<>>
    /\ runs = <<>>
    /\ call = Null
    /\ probe = Null

Login == \E found \in BOOLEAN, valid \in BOOLEAN, token \in HfTokens,
            device_id \in DeviceIds : login(found, valid, token, device_id)
Link == \E supabase \in BOOLEAN : link_cli_session(supabase)
Unlearn == \E supabase \in BOOLEAN : run_unlearn(supabase)
Proof == \E supabase \in BOOLEAN : get_proof(supabase)
LinkAnswer == \E answer \in Answers : link_answer(answer)
UnlearnAnswer == \E answer \in Answers : unlearn_answer(answer)
ProofAnswer == \E answer \in Answers : proof_answer(answer)
PollAnswer == \E answer \in Answers : poll_answer(answer)

SdkNext ==
    \/ Login
    \/ Link
    \/ Unlearn
    \/ Proof
    \/ LinkAnswer
    \/ UnlearnAnswer
    \/ ProofAnswer
    \/ poll_request
    \/ PollAnswer

SdkSpec == SdkInit /\ [][SdkNext]_vars

\* The steps of the SDK itself are taken when they can be; the answers of the
\* remote service are not: no request carries a timeout.
FairSdkSpec == SdkSpec /\ WF_vars(poll_request)

(***************************************************************************)
(* The runner server, src/project/local/runner/server.py.  Its start and    *)
(* status handlers (lines 64-108) are those of the server above, statement  *)
(* for statement, so Start and Status stand for them; its unit of work is   *)
(* translated here.                                                         *)
(***************************************************************************)
\* The names bound at module level, lines 1-58: the imports, the logger, the
\* application, the settings and the request and response classes.  The
\* `import asyncio` of line 87 is inside start_unlearning and binds a local
\* name of that function.
RunnerGlobals ==
    {"hashlib", "json", "logging", "os", "platform", "sys", "time", "datetime",
     "Optional", "np", "torch", "uvicorn", "FastAPI", "HTTPException",
     "BaseModel", "logger", "app", "FORG3T_LOCAL_STRICT", "jobs",
     "RUNNER_VERSION", "GIT_SHORT_SHA", "subprocess", "UnlearningRequest",
     "JobStatus", "StartResponse", "VersionResponse"}

NameError(name) == "name '" \o name \o "' is not defined"

\* process_unlearning, lines 165-180 and 477-482: the state and the progress
\* are set, then the first iteration of the loop evaluates asyncio.sleep; the
\* handler records the exception.
runner_process_unlearning(t) ==
    /\ t \in 1..Len(tasks)
    /\ tasks[t].pc = "created"
    /\ LET job_id == tasks[t].job_id
           running == [jobs EXCEPT
                         ![job_id].state = "running",
                         ![job_id].progress =
                             Progress(0, "Initializing unlearning process")]
       IN IF "asyncio" \in RunnerGlobals
            THEN /\ jobs' = running
                 /\ tasks' = [tasks EXCEPT ![t].pc = "sleeping"]
            ELSE /\ jobs' = except_handler(running, job_id, NameError("asyncio"))
                 /\ tasks' = Raised(t, NameError("asyncio"))
    /\ resp' = NoResponse
    /\ UNCHANGED <<files, dirs>>
    /\ UNCHANGED <<deltaVars, injectVars, probeVars, sdkVars>>

RunnerProcess == \E t \in 1..MaxTasks : runner_process_unlearning(t)

RunnerNext ==
    \/ Start
    \/ Status
    \/ RunnerProcess
    \/ Unlink

RunnerSpec == Init /\ [][RunnerNext]_vars

(***************************************************************************)
(* Properties.                                                              *)
(***************************************************************************)
Terminal == {"done", "error"}

View(job) == JobStatus(job.state, job.progress, job.result, job.error)

\* b is a state a status query may report after it reported a.
MayFollow(a, b) ==
    \/ a = b
    \/ a = "queued" /\ b \in {"running", "done", "error"}
    \/ a = "running" /\ b \in Terminal

\* C1: the states of a job, as status reports them over time, only move
\* forward along queued, running, then done or error: no job returns to an
\* earlier state or moves between done and error.
C1_StateMonotone ==
    [][\A id \in DOMAIN jobs : MayFollow(jobs[id].state, jobs'[id].state)]_vars

\* C2: once a job is done or error, no step changes its state, progress,
\* result or error.
C2_TerminalFrozen ==
    [][\A id \in DOMAIN jobs :
          jobs[id].state \in Terminal => View(jobs'[id]) = View(jobs[id])]_vars

\* C3: under weak fairness of every task's steps, every job in the registry
\* eventually is done or error.
C3_EventuallyTerminal ==
    \A id \in JobIds :
        (id \in DOMAIN jobs) ~> (id \in DOMAIN jobs /\ jobs[id].state \in Terminal)

C3_Witness ==
    \E t \in DOMAIN tasks :
        /\ tasks[t].pc = "returned"
        /\ tasks[t].exc = Null
        /\ jobs[tasks[t].job_id].state = "done"

\* C4: the step in which a task's pipeline raises leaves that job in state
\* error, with error the failure message and progress 0 with that message;
\* the task returns (nothing propagates) and no other record changes.
C4_FailureCaptured ==
    [][\A t \in DOMAIN tasks :
          (tasks[t].exc = Null /\ tasks'[t].exc # Null) =>
             LET id == tasks[t].job_id
                 msg == tasks'[t].exc[1]
             IN /\ tasks'[t].pc = "returned"
                /\ jobs'[id].state = "error"
                /\ jobs'[id].error = Some(msg)
                /\ jobs'[id].progress = Progress(0, "Error: " \o msg)
                /\ DOMAIN jobs' = DOMAIN jobs
                /\ \A other \in DOMAIN jobs \ {id} : jobs'[other] = jobs[other]]_vars

\* A manifest write has failed after a successful injection, with another
\* job in the registry.
C4_Witness ==
    \E t \in DOMAIN tasks :
        /\ tasks[t].exc = Some("write failed")
        /\ tasks[t].injection # Null
        /\ tasks[t].injection[1].success
        /\ jobs[tasks[t].job_id].state = "error"
        /\ Cardinality(DOMAIN jobs) > 1

\* C5: a task never sets its job to done when the injection of its run
\* returned success = false.
C5_DoneOnlyOnInjectionSuccess ==
    [][\A t \in DOMAIN tasks :
          (tasks[t].pc = "injecting" /\ tasks'[t].pc = "returned"
             /\ tasks'[t].exc = Null) =>
                tasks'[t].injection[1].success]_vars

\* C6: an accepted start adds exactly one new record, queued, at progress 0,
\* with no result and no error, schedules one task for it and runs no step of
\* the pipeline; while that task has not taken its first step, the job's
\* state is queued.
C6_StartInsertsQueued ==
    /\ [][(resp'.op = "start" /\ resp'.code = 200) =>
            LET id == resp'.job_id IN
            /\ id \notin DOMAIN jobs
            /\ DOMAIN jobs' = DOMAIN jobs \cup {id}
            /\ \A other \in DOMAIN jobs : jobs'[other] = jobs[other]
            /\ View(jobs'[id]) =
                 JobStatus("queued", Progress(0, "Job queued"), Null, Null)
            /\ tasks' = Append(tasks, NewTask(id, jobs'[id].request))
            /\ files' = files /\ dirs' = dirs]_vars
    /\ [](\A t \in DOMAIN tasks :
            tasks[t].pc = "created" => jobs[tasks[t].job_id].state = "queued")

\* C7: a start whose model_path does not exist or whose method is not one
\* of the two is answered 400 and changes nothing; only a valid request is
\* accepted.
C7_InvalidStartRejected ==
    /\ [][(resp'.op = "start" /\ resp'.code = 400) =>
            jobs' = jobs /\ tasks' = tasks /\ files' = files /\ dirs' = dirs]_vars
    /\ [][(resp'.op = "start" /\ resp'.code # 400) =>
            /\ resp'.code = 200
            /\ Len(tasks') = Len(tasks) + 1
            /\ LET request == tasks'[Len(tasks')].request
               IN /\ Exists(files, request.model_path)
                  /\ request.method \in Methods]_vars

\* A start was rejected while the registry held a job.
C7_Witness ==
    /\ resp.op = "start"
    /\ resp.code = 400
    /\ DOMAIN jobs # {}

\* C8: status answers 404 for an id that is not registered and is not
\* "ping"; for "ping" it answers done, percent 100, "Server is running", and
\* no record has that id; for a registered id it answers that record's
\* state, progress, result and error.  A status request changes no record.
C8_StatusAnswer ==
    /\ [](PingId \notin DOMAIN jobs)
    /\ [](resp.op = "status" =>
            IF resp.job_id = PingId
              THEN /\ resp.code = 200
                   /\ resp.body = JobStatus("done",
                                    Progress(100, "Server is running"), Null, Null)
            ELSE IF resp.job_id \notin DOMAIN jobs
              THEN resp.code = 404
            ELSE resp.code = 200 /\ resp.body = View(jobs[resp.job_id]))
    /\ [][resp'.op = "status" => jobs' = jobs /\ tasks' = tasks]_vars

\* Status answered 404 for an unknown id while another job was running.
C8_Witness ==
    /\ resp.op = "status"
    /\ resp.code = 404
    /\ \E id \in DOMAIN jobs : jobs[id].state = "running"

\* C9: the ids returned by successful starts are pairwise different and each
\* is ordered after the ones returned before it.
C9_IdsUniqueMonotone ==
    \A i, j \in DOMAIN tasks :
        i < j => /\ tasks[i].job_id # tasks[j].job_id
                 /\ IdBefore(tasks[i].job_id, tasks[j].job_id)

\* A record as one completed update of its task leaves it.
Committed(v) ==
    \/ v = JobStatus("queued", Progress(0, "Job queued"), Null, Null)
    \/ /\ v.state = "running"
       /\ v.progress.percent \in {10, 30, 70, 85}
       /\ v.result = Null /\ v.error = Null
    \/ /\ v.state = "done"
       /\ v.progress = Progress(100, "Unlearning completed successfully")
       /\ v.result # Null /\ v.error = Null
    \/ /\ v.state = "error"
       /\ v.error # Null
       /\ v.progress = Progress(0, "Error: " \o v.error[1])
       /\ v.result = Null

\* C10: a status query is answered in every state, and what it returns for
\* a job is a record as one completed update left it.
C10_StatusSnapshot ==
    /\ \A id \in QueryIds : ENABLED get_status(id)
    /\ (resp.op = "status" /\ resp.code = 200 /\ resp.job_id # PingId) =>
          Committed(resp.body)

\* C11: two runs of delta generation with the same target text and the same
\* method, in one server process or in two, produce the same delta and the same
\* summary statistics.
C11_DeltaDeterministic ==
    \A i, j \in 1..Len(runs) :
        (/\ runs[i].pc = "generated"
         /\ runs[j].pc = "generated"
         /\ runs[i].target_text = runs[j].target_text
         /\ runs[i].method = runs[j].method)
        => /\ runs[i].diff = runs[j].diff
           /\ runs[i].stats = runs[j].stats

\* The integrity file of directory content d lists exactly the other files of
\* d, each with the digest of its present content.
IntegrityCovers(d) ==
    /\ "integrity.json" \in DOMAIN d
    /\ d["integrity.json"].complete
    /\ LET listed == d["integrity.json"].data.artifacts
       IN /\ DOMAIN listed = DOMAIN d \ {"integrity.json"}
          /\ \A n \in DOMAIN listed : listed[n] = Digest(d[n])

\* C12: at the step that makes a job done, the integrity file of its output
\* directory has exactly one entry for each other file of the directory (the
\* delta archive, the probes, the cosine report, the apply check and the
\* manifest), and each digest is the digest of that file as it is on disk.
C12_IntegrityCoversArtifacts ==
    [][\A id \in DOMAIN jobs' :
          (/\ jobs'[id].state = "done"
           /\ (id \notin DOMAIN jobs \/ jobs[id].state # "done"))
          => IntegrityCovers(dirs'[jobs'[id].result[1].artifact_path])]_vars

\* C13: when a call of inject_weights_into_model returns success, the backup
\* file holds the checkpoint as it was before the call, and the checkpoint
\* after the call has the same tensors as the backup except at the names that
\* appear in the delta archive.
C13_BackupIsPreInjection ==
    [][\A t \in DOMAIN tasks :
          (/\ tasks[t].pc = "injecting"
           /\ tasks'[t].injection # Null
           /\ tasks'[t].injection[1].success)
          => LET path == tasks[t].request.model_path
                 delta == dirs[tasks[t].output_path[1]]["weight_diffs.npz"].data
                 backup == files'[BackupPath(path)]
                 after == files'[path]
             IN /\ backup = files[path]
                /\ after.kind = "safetensors"
                /\ DOMAIN after.tensors = DOMAIN backup.tensors
                /\ \A n \in DOMAIN after.tensors :
                      n # delta.name => after.tensors[n] = backup.tensors[n]]_vars

\* A successful injection that changed one tensor and left the other alone.
C13_Witness ==
    \E t \in DOMAIN tasks :
        /\ tasks[t].injection # Null
        /\ tasks[t].injection[1].success
        /\ tasks[t].injection[1].injected_tensors = 1
        /\ LET path == tasks[t].request.model_path
               backup == files[BackupPath(path)]
           IN /\ Exists(files, path)
              /\ backup.kind = "safetensors"
              /\ \E n \in DOMAIN backup.tensors :
                    files[path].tensors[n] # backup.tensors[n]
              /\ \E n \in DOMAIN backup.tensors :
                    files[path].tensors[n] = backup.tensors[n]

\* C14: in every execution of inject_weights_into_model, a step that writes
\* the temporary file, or that replaces or removes the checkpoint, is taken
\* only after the backup copy has completed and while the backup holds the
\* original content; once the backup copy has failed the checkpoint is never
\* replaced or removed.
C14_BackupBeforeWrite ==
    [][LET path == call.path
           temp_written == /\ files'[TempPath(path)] # files[TempPath(path)]
                           /\ Exists(files', TempPath(path))
           original_touched == files'[path] # files[path]
       IN /\ (temp_written \/ original_touched)
             => /\ call.backup = "done"
                /\ files[BackupPath(path)] = call.before
          /\ call.backup = "failed" => files'[path] = files[path]]_vars

\* The checkpoint was replaced, and the backup holds what it replaced.
C14_Witness ==
    /\ call # Null
    /\ call.pc = "returned"
    /\ call.backup = "done"
    /\ files[call.path] # call.before
    /\ files[BackupPath(call.path)] = call.before

\* C15: the checkpoint path never holds a partially written file: it changes
\* only by the temporary file, written in full with the modified tensors, being
\* moved onto it, or, after the atomic replace has failed, by the original
\* being deleted before the rename; when the fallback fails as well the call
\* returns success = false.
C15_NoPartialCheckpoint ==
    [][LET path == call.path IN
       /\ files'[path].kind # "partial"
       /\ files'[path] # files[path]
            => \/ /\ call.modified # Null
                  /\ files[TempPath(path)] = Checkpoint(call.modified[1])
                  /\ files'[path] = files[TempPath(path)]
                  /\ call.pc = "rename" => call.replace_failed
               \/ /\ files'[path] = Absent
                  /\ call.replace_failed
       /\ (call'.pc = "returned" /\ call'.fallback_failed)
            => ~call'.result[1].success]_vars

\* The atomic replace failed, the original was deleted, the rename failed.
C15_Witness ==
    /\ call # Null
    /\ call.pc = "returned"
    /\ call.replace_failed
    /\ call.fallback_failed
    /\ ~Exists(files, call.path)
    /\ ~call.result[1].success

\* C16: a call of inject_weights_into_model always returns a result; when a
\* step failed the result has success = false and the error message, and no
\* file is left at the temporary path.
C16_FailureLeavesNoTemp ==
    (call # Null /\ call.pc = "returned")
      => /\ call.result # Null
         /\ call.error # Null
              => /\ ~call.result[1].success
                 /\ call.result[1].error = call.error[1]
                 /\ ~Exists(files, TempPath(call.path))

\* The strings a file of the output directory stores as plain text: the parts
\* of the prompts of probes.json.  The other files hold figures, digests, the
\* method name and the injection result.
PlainStrings(file) ==
    IF file.complete /\ "prompts" \in DOMAIN file.data
      THEN UNION {{file.data.prompts[i][k] : k \in DOMAIN file.data.prompts[i]} :
                    i \in DOMAIN file.data.prompts}
      ELSE {}

\* C17: no file of a job's output directory contains the target text of the
\* job verbatim, and the manifest's target_text_sha256 is the SHA-256 of the
\* request's target text.
C17_TargetTextNotPersisted ==
    \A t \in DOMAIN tasks :
        tasks[t].output_path # Null =>
          LET d == dirs[tasks[t].output_path[1]]
              text == tasks[t].request.target_text
          IN /\ \A n \in DOMAIN d : text \notin PlainStrings(d[n])
             /\ ("manifest.json" \in DOMAIN d /\ d["manifest.json"].complete)
                  => d["manifest.json"].data.target_text_sha256 = Sha256(text)

\* The messages of the two rejections of the load step.
UnsupportedMessages ==
    {"Only .safetensors models are supported in this implementation",
     "Failed to load model"}

\* C18: when the load step of a job finds a model path that does not end in
\* .safetensors, or a file that does not load, the job goes to error with the
\* message of the rejection, and the step changes no file (the checkpoint is
\* not modified, no backup is created) and no output directory; the task
\* returns without an output directory and without having called the injector.
C18_UnsupportedFormatRejected ==
    [][\A t \in DOMAIN tasks :
          (/\ tasks[t].pc = "loading"
           /\ tasks'[t].pc # "loading"
           /\ \/ ~EndsWithSafetensors(tasks[t].request.model_path)
              \/ ~LoadOk(files, tasks[t].request.model_path))
          => /\ tasks'[t].pc = "returned"
             /\ tasks'[t].exc # Null
             /\ tasks'[t].exc[1] \in UnsupportedMessages
             /\ jobs'[tasks[t].job_id].state = "error"
             /\ jobs'[tasks[t].job_id].error = tasks'[t].exc
             /\ tasks'[t].output_path = Null
             /\ tasks'[t].injection = Null
             /\ files' = files
             /\ dirs' = dirs]_vars

\* A job on a model file that is not a .safetensors file has ended in error.
C18_Witness ==
    \E t \in DOMAIN tasks :
        /\ tasks[t].pc = "returned"
        /\ ~EndsWithSafetensors(tasks[t].request.model_path)
        /\ tasks[t].exc = Some("Only .safetensors models are supported in this implementation")
        /\ jobs[tasks[t].job_id].state = "error"
        /\ ~Exists(files, BackupPath(tasks[t].request.model_path))
        /\ dirs = <<>>

\* The six artifact files of a run.
ArtifactNames ==
    {"weight_diffs.npz", "probes.json", "cosine_similarity_report.json",
     "apply_check.json", "integrity.json", "manifest.json"}

\* C19: whenever a job is done, the directory named by result.artifact_path
\* holds all six artifact files, each of them written in full.
C19_DoneHasSixArtifacts ==
    \A id \in DOMAIN jobs :
        jobs[id].state = "done" =>
          LET output_path == jobs[id].result[1].artifact_path
          IN /\ output_path \in DOMAIN dirs
             /\ \A n \in ArtifactNames :
                   /\ n \in DOMAIN dirs[output_path]
                   /\ dirs[output_path][n].complete

\* C20: when an EmbeddingScrub job on a checkpoint whose single tensor is named
\* embedding.weight (vocabulary x hidden shape) becomes done after a successful
\* injection, that tensor equals the tensor of the backup plus the delta of the
\* run's archive.
C20_ScrubbedEqualsBackupPlusDelta ==
    [][\A t \in DOMAIN tasks :
          (/\ tasks[t].pc = "injecting"
           /\ tasks[t].request.method = "EmbeddingScrub"
           /\ tasks'[t].pc = "returned"
           /\ jobs'[tasks[t].job_id].state = "done"
           /\ tasks'[t].injection[1].success)
          => LET path == tasks[t].request.model_path
                 delta == dirs[tasks[t].output_path[1]]["weight_diffs.npz"].data
                 backup == files'[BackupPath(path)]
             IN /\ backup = files[path]
                /\ files'[path].tensors["embedding.weight"] =
                      AddDiff(backup.tensors["embedding.weight"], delta)]_vars

\* The artifact files in the order process_unlearning writes them.
WriteOrder ==
    <<"weight_diffs.npz", "probes.json", "cosine_similarity_report.json",
      "apply_check.json", "integrity.json", "manifest.json">>

\* Directory content d holds a complete file named n.
Written(d, n) == n \in DOMAIN d /\ d[n].complete

\* C21: the artifact files of a run are written one after another, each in full
\* before the next is started, the integrity file and the manifest after the
\* others: a file on disk implies every earlier file of the order is there in
\* full, so a manifest implies every other artifact; and the directory of a
\* job that failed holds no manifest.
C21_ManifestImpliesArtifacts ==
    /\ \A output_path \in DOMAIN dirs :
          \A i, j \in DOMAIN WriteOrder :
              (i < j /\ WriteOrder[j] \in DOMAIN dirs[output_path])
                => Written(dirs[output_path], WriteOrder[i])
    /\ \A t \in DOMAIN tasks :
          (tasks[t].pc = "returned" /\ tasks[t].exc # Null
             /\ tasks[t].output_path # Null)
            => ~Written(dirs[tasks[t].output_path[1]], "manifest.json")

\* C22: artifact_index answers 404 for an id that is not registered, 400 for a
\* registered job that is queued, running or in error, and for a done job the
\* name, size and SHA-256 of every file of the directory named by its
\* result.artifact_path; the request changes no job record.
C22_ArtifactIndexAnswer ==
    /\ [](resp.op = "artifact_index" =>
            IF resp.job_id \notin DOMAIN jobs
              THEN resp.code = 404
            ELSE IF jobs[resp.job_id].state \in {"queued", "running", "error"}
              THEN resp.code = 400
            ELSE /\ jobs[resp.job_id].state = "done"
                 /\ resp.code = 200
                 /\ LET d == dirs[jobs[resp.job_id].result[1].artifact_path]
                    IN /\ DOMAIN resp.artifacts = DOMAIN d
                       /\ \A n \in DOMAIN d :
                             resp.artifacts[n] =
                               [name |-> n, size |-> Size(d[n]),
                                sha256 |-> Digest(d[n])])
    /\ [][resp'.op = "artifact_index" => jobs' = jobs]_vars

\* The index of a done job listed its six files while another job was in error.
C22_Witness ==
    /\ resp.op = "artifact_index"
    /\ resp.code = 200
    /\ DOMAIN resp.artifacts = ArtifactNames
    /\ \E id \in DOMAIN jobs : jobs[id].state = "error"

\* C23: for every job whose injection has run, the success field of the
\* apply_check.json of the run equals the success field of the injection
\* result.
C23_ApplyCheckReportsInjection ==
    \A t \in DOMAIN tasks :
        tasks[t].injection # Null =>
          LET d == dirs[tasks[t].output_path[1]]
          IN /\ Written(d, "apply_check.json")
             /\ d["apply_check.json"].data.success = tasks[t].injection[1].success

\* The verification artifacts, the integrity file and the manifest.
AfterInjection ==
    {"probes.json", "cosine_similarity_report.json", "apply_check.json",
     "integrity.json", "manifest.json"}

\* C24: within one job the checkpoint injection comes after the job was set
\* running and the delta was generated, and before the artifact writing: when
\* the injector is called, the delta archive of the run is written and none
\* of the probes, the cosine report, the apply check, the integrity file and
\* the manifest is; done or error is set after that.
C24_InjectionBeforeArtifacts ==
    [][\A t \in DOMAIN tasks :
          (tasks[t].injection = Null /\ tasks'[t].injection # Null)
          => LET d == dirs[tasks[t].output_path[1]]
             IN /\ jobs[tasks[t].job_id].state = "running"
                /\ Written(d, "weight_diffs.npz")
                /\ \A n \in AfterInjection : n \notin DOMAIN d]_vars

\* C25: the probes hold eight prompts; the four built from the target text get
\* the method's before/after pair and the four control prompts get the fixed
\* pair (0.15, 0.14), whatever the target text is.
C25_ControlPromptsFixed ==
    (probe # Null /\ probe.pc = "scored")
      => /\ Len(probe.prompts) = 8
         /\ Len(probe.scores) = 8
         /\ \A i \in 1..4 : probe.scores[i] = MethodPair(probe.method)
         /\ \A i \in 5..8 : probe.scores[i] = ControlPair

\* The tasks that own job id.
Owners(id) == {t \in DOMAIN tasks : tasks[t].job_id = id}

\* C26: a job record is written by start, once, when it is created, and
\* afterwards only by the one unit of work that owns the job: a start leaves
\* every existing record as it is, a step of a task leaves the records of all
\* other jobs unchanged, a status or artifact_index request changes no
\* record, and no step removes a record.
C26_RecordWrittenByOwner ==
    /\ [][/\ DOMAIN jobs \subseteq DOMAIN jobs'
          /\ resp'.op \in {"status", "artifact_index"} => jobs' = jobs
          /\ resp'.op = "start" =>
                \A id \in DOMAIN jobs : jobs'[id] = jobs[id]
          /\ \A id \in DOMAIN jobs :
                jobs'[id] # jobs[id] =>
                  \E t \in Owners(id) :
                     /\ tasks'[t] # tasks[t]
                     /\ \A u \in DOMAIN tasks \ {t} : tasks'[u] = tasks[u]]_vars
    /\ [](\A id \in DOMAIN jobs : Cardinality(Owners(id)) = 1)

\* C27: when the injector returns success = false and the manifest write
\* succeeds, the manifest is written with the failure under weight_injection
\* and the job ends done with progress 100, a result and no error.
C27_InjectionFailureIsData ==
    [][\A t \in DOMAIN tasks :
          (/\ tasks[t].pc = "injecting"
           /\ tasks'[t].pc = "returned"
           /\ tasks'[t].exc = Null
           /\ ~tasks'[t].injection[1].success)
          => LET d == dirs'[tasks[t].output_path[1]]
                 job == jobs'[tasks[t].job_id]
             IN /\ Written(d, "manifest.json")
                /\ d["manifest.json"].data.weight_injection = tasks'[t].injection[1]
                /\ "error" \in DOMAIN d["manifest.json"].data.weight_injection
                /\ job.state = "done"
                /\ job.progress.percent = 100
                /\ job.result # Null
                /\ job.error = Null]_vars

\* The archive of the call names a tensor of the checkpoint whose shape is not
\* the shape of the difference.
ShapeMismatch(c) ==
    /\ c.before.kind = "safetensors"
    /\ c.npz.complete
    /\ \E n \in Matched(c.before.tensors, c.npz.data) :
          c.before.tensors[n].shape # c.npz.data.shape

\* C28: when a tensor named in the delta does not have the shape of the
\* checkpoint tensor of the same name, the whole call fails: no step of it
\* changes the checkpoint or creates the backup file, and it returns
\* success = false with no file at the temporary path.
C28_MismatchFailsWholeCall ==
    [][(call # Null /\ ShapeMismatch(call))
         => /\ files'[call.path] = files[call.path]
            /\ files'[BackupPath(call.path)] = files[BackupPath(call.path)]
            /\ call'.pc = "returned"
                 => /\ ~call'.result[1].success
                    /\ ~Exists(files', TempPath(call.path))]_vars

\* The delta a run produces when no other run uses the generator between its
\* seeding and its draws.
DeltaAlone(run) ==
    LET h == PyHash(hash_salt[run.proc], run.target_text)
    IN DiffData(run.method, Seeded(TextSeed(h)), TargetHash(h))

\* C29: whatever other runs are interleaved with it at the suspension point,
\* the delta (and its statistics) of a run is the delta the run produces alone.
C29_DeltaIndependentOfOthers ==
    \A i \in 1..Len(runs) :
        runs[i].pc = "generated" =>
          /\ runs[i].diff = Some(DeltaAlone(runs[i]))
          /\ runs[i].stats = Some(DiffStats(DeltaAlone(runs[i])))

\* The files a run has written when it computes its integrity file.
HashedByOwnRun ==
    {"weight_diffs.npz", "probes.json", "cosine_similarity_report.json",
     "apply_check.json"}

\* C30: each job writes to an output directory of its own: no two jobs have the
\* same output directory, so that no job overwrites a file of another job, and
\* the integrity file of a run lists no file written by another run (the
\* integrity file or the manifest of a run that shares the directory).
C30_OwnOutputDirectory ==
    /\ \A t, u \in DOMAIN tasks :
          (t # u /\ tasks[t].output_path # Null /\ tasks[u].output_path # Null)
            => tasks[t].output_path # tasks[u].output_path
    /\ \A output_path \in DOMAIN dirs :
          Written(dirs[output_path], "integrity.json")
            => DOMAIN dirs[output_path]["integrity.json"].data.artifacts
                 \subseteq HashedByOwnRun

\* C31: at every point of a call of inject_weights_into_model, whichever file
\* operation fails and wherever the call stops, the complete content the
\* checkpoint had before the call is on disk, at the checkpoint path or at the
\* backup path.
C31_OriginalAlwaysOnDisk ==
    call # Null
      => \/ files[call.path] = call.before
         \/ files[BackupPath(call.path)] = call.before

\* The original was removed by the fallback and the rename failed: the backup
\* is the only copy of the pre-injection content.
C31_Witness ==
    /\ call # Null
    /\ call.pc \in {"except", "returned"}
    /\ call.fallback_failed
    /\ call.before.kind = "safetensors"
    /\ ~Exists(files, call.path)
    /\ files[BackupPath(call.path)] = call.before

\* C32: whenever inject_weights_into_model returns, with success or with
\* failure, the checkpoint path holds a complete file: the original content or
\* the modified content.
C32_CheckpointPresentOnReturn ==
    (call # Null /\ call.pc = "returned")
      => \/ files[call.path] = call.before
         \/ /\ call.modified # Null
            /\ files[call.path] = Checkpoint(call.modified[1])

\* C33: a job that ends in error leaves the checkpoint as it was: the step in
\* which a unit of work fails does not change the file at model_path, and the
\* unit of work that fails has not replaced the checkpoint by a successful
\* injection.
C33_ErrorLeavesCheckpoint ==
    [][\A t \in DOMAIN tasks :
          (tasks[t].exc = Null /\ tasks'[t].exc # Null)
            => /\ files'[tasks[t].request.model_path]
                    = files[tasks[t].request.model_path]
               /\ \/ tasks'[t].injection = Null
                  \/ ~tasks'[t].injection[1].success]_vars

\* C34: each successful injection overwrites the one backup file.  When a
\* second job injects successfully into a checkpoint that an earlier job has
\* injected into, the backup afterwards holds the content the earlier job
\* produced, and the content the backup held before (the checkpoint as it was
\* before the first job) is no longer at the checkpoint path or at the backup
\* path.
C34_BackupOverwritten ==
    [][\A t, u \in DOMAIN tasks :
          (/\ t # u
           /\ tasks[u].injection # Null
           /\ tasks[u].injection[1].success
           /\ tasks[u].request.model_path = tasks[t].request.model_path
           /\ tasks[t].pc = "injecting"
           /\ tasks'[t].injection # Null
           /\ tasks'[t].injection[1].success)
          => LET path == tasks[t].request.model_path
                 original == files[BackupPath(path)]
             IN /\ files'[BackupPath(path)] = files[path]
                /\ files'[path] # original
                /\ files'[BackupPath(path)] # original]_vars

\* C35: the progress percent of every job is in 0..100; it is 0 while the job
\* is queued, it does not decrease while the job is running, it is 100 exactly
\* when the job is done, and it is 0 when the job is in error.
C35_ProgressFollowsState ==
    [][\A id \in DOMAIN jobs' :
          LET job == jobs'[id] IN
          /\ job.progress.percent \in 0..100
          /\ job.state = "queued" => job.progress.percent = 0
          /\ job.state = "done" <=> job.progress.percent = 100
          /\ job.state = "error" => job.progress.percent = 0
          /\ (id \in DOMAIN jobs /\ jobs[id].state = "running"
                /\ job.state = "running")
               => job.progress.percent >= jobs[id].progress.percent]_vars

\* C36: in every state a status query can observe, result and error agree with
\* the state: a queued or running job has neither; a done job has a result
\* whose artifact_path is the output directory of a unit of work of the job,
\* and no error; a job in error has an error and no result.
C36_ResultErrorFollowState ==
    \A id \in DOMAIN jobs :
        LET job == jobs[id] IN
        /\ job.state \in {"queued", "running"}
             => job.result = Null /\ job.error = Null
        /\ job.state = "done"
             => /\ job.result # Null
                /\ job.error = Null
                /\ \E t \in DOMAIN tasks :
                      /\ tasks[t].job_id = id
                      /\ tasks[t].output_path = Some(job.result[1].artifact_path)
        /\ job.state = "error"
             => job.error # Null /\ job.result = Null

\* What a step of poll_job_status may do: an answer reporting completed
\* returns True, one reporting failed returns False, any other answer, status
\* code or exception uses up an attempt and the loop goes on; after
\* max_attempts attempts it returns False; True is returned only on completed.
PollStep ==
    /\ command'.name = "unlearn" => command'.requests <= 1 + max_attempts
    /\ command.pc = "status"
         => LET answer == command'.response IN
            IF answer.kind = "json" /\ answer.status = "completed"
              THEN command'.pc = "returned" /\ command'.result = Some(TRUE)
            ELSE IF answer.kind = "json" /\ answer.status = "failed"
              THEN command'.pc = "returned" /\ command'.result = Some(FALSE)
            ELSE /\ command'.pc = "polling"
                 /\ command'.attempt = command.attempt + 1
    /\ (command.pc = "polling" /\ command.attempt >= max_attempts)
         => command'.pc = "returned" /\ command'.result = Some(FALSE)
    /\ (command'.name = "unlearn" /\ command'.result = Some(TRUE))
         => /\ command'.response.kind = "json"
            /\ command'.response.status = "completed"

\* C37: poll_job_status always terminates: once it has started polling it
\* returns; it makes at most max_attempts status requests, returns True at the
\* first answer reporting completed and False at the first reporting failed,
\* counts an exception or a status code other than 200 as an attempt, returns
\* False after max_attempts attempts, and never returns True without having
\* seen completed.
C37_PollTerminates ==
    /\ [][PollStep]_vars
    /\ (command.pc = "polling") ~> (command.pc = "returned")

\* C38: over any sequence of the commands login, link, unlearn and proof:
\* unlearn and proof send a request to the remote service only when the saved
\* configuration holds a token and linked = true; linked becomes true only by
\* a link command whose request was answered 200 with success; and a
\* successful login leaves a configuration with linked = false.
C38_LinkedBeforeRemote ==
    [][/\ (/\ command' # command
           /\ command'.name \in {"unlearn", "proof"}
           /\ command'.pc \in {"waiting", "status"})
          => HasToken(config) /\ Linked(config)
       /\ (Linked(config') /\ ~Linked(config))
          => /\ command.name = "link"
             /\ command.pc = "waiting"
             /\ command'.response.kind = "json"
             /\ command'.response.success
       /\ (command'.name = "login" /\ command'.result = Some(TRUE))
          => config'.kind = "json" /\ ~config'.data.linked]_vars

\* An unlearn command that passed both checks and is polling, with the
\* configuration a link command saved.
C38_Witness ==
    /\ command.name = "unlearn"
    /\ command.pc = "status"
    /\ Linked(config)
    /\ command.loaded = config

\* The messages of the exceptions a failing file operation raises.
FileErrors == {"makedirs failed", "write failed"}

\* C39: in the runner server a job accepted by start goes through the progress
\* updates, writes its six files and ends in state done; it does not end in
\* error when no file operation fails: a unit of work that has raised has
\* raised the error of a file operation.
C39_RunnerJobCompletes ==
    \A t \in DOMAIN tasks :
        tasks[t].exc # Null => tasks[t].exc[1] \in FileErrors

====
